---- MODULE Spec2Model ----
(***************************************************************************)
(* Model of the `.lib` / `ar` archive reader: link/parse.py (BufferStream), *)
(* link/util.py (parse_big_endian) and link/ar.py (ArchiveReader).          *)
(*                                                                         *)
(* Bytes are integers 0..255, a buffer is a sequence of bytes, and decoded  *)
(* text is the sequence of its code points (UTF-8, as the code decodes it). *)
(* Python `None` is the empty sequence <<>> and a present value v is <<v>>. *)
(* An operator that can raise returns a record whose field `err` names the  *)
(* exception class ("" when it returns normally).                           *)
(***************************************************************************)
EXTENDS Integers, Sequences, FiniteSets, TLC

\* ---------------------------------------------------------------- bytes --
SP == 32
NL == 10
SLASH == 47
BACKQUOTE == 96
NUL == 0
ZERO == 48
PLUS == 43
MINUS == 45
UNDERSCORE == 95

\* The characters int() trims off both ends of a text: the ASCII white space
\* of C and the white space characters beyond ASCII.
Whitespace ==
  {9, 10, 11, 12, 13, 32, 133, 160, 5760} \cup (8192..8202)
  \cup {8232, 8233, 8239, 8287, 12288}

\* The digit zero of every decimal digit run int() reads (Unicode 14, the
\* table of the interpreter the reader runs on); the digit of value v is v
\* characters further.
DecimalZeros ==
  {48, 1632, 1776, 1984, 2406, 2534, 2662, 2790, 2918, 3046, 3174, 3302, 3430,
   3558, 3664, 3792, 3872, 4160, 4240, 6112, 6160, 6470, 6608, 6784, 6800,
   6992, 7088, 7232, 7248, 42528, 43216, 43264, 43472, 43504, 43600, 44016,
   65296, 66720, 68912, 69734, 69872, 69942, 70096, 70384, 70736, 70864,
   71248, 71360, 71472, 71904, 72016, 72784, 73040, 73120, 92768, 92864,
   93008, 120782, 120792, 120802, 120812, 120822, 123200, 123632, 125264,
   130032}

IsDigit(c) ==
  IF c < 128 THEN c >= ZERO /\ c <= ZERO + 9
  ELSE \E z \in DecimalZeros : z <= c /\ c <= z + 9

DigitValue(c) ==
  IF c < 128 THEN c - ZERO
  ELSE c - (CHOOSE z \in DecimalZeros : z <= c /\ c <= z + 9)

MAGIC == <<33, 60, 97, 114, 99, 104, 62, 10>>

None == <<>>
Some(v) == <<v>>

Max2(a, b) == IF a > b THEN a ELSE b
Min2(a, b) == IF a < b THEN a ELSE b

\* Python slice data[a:b] (negative bounds count from the end, all clamped).
PyBound(i, n) == IF i < 0 THEN Max2(i + n, 0) ELSE Min2(i, n)
Cut(data, lo, hi) == IF hi <= lo THEN <<>> ELSE SubSeq(data, lo + 1, hi)
PySlice(data, a, b) == Cut(data, PyBound(a, Len(data)), PyBound(b, Len(data)))

\* Python data[i]: <<byte>>, or None when it raises IndexError.
ItemAt(data, j) == IF j < 0 \/ j >= Len(data) THEN None ELSE Some(data[j + 1])
PyItem(data, i) == ItemAt(data, IF i < 0 THEN i + Len(data) ELSE i)

\* str.rstrip(" ")
RECURSIVE rstrip(_)
rstrip(t) ==
  IF t # <<>> /\ t[Len(t)] = SP THEN rstrip(SubSeq(t, 1, Len(t) - 1)) ELSE t

\* str.strip() as int() applies it before parsing.
RECURSIVE StripWs(_)
StripWs(t) ==
  IF t = <<>> THEN t
  ELSE IF t[1] \in Whitespace THEN StripWs(Tail(t))
  ELSE IF t[Len(t)] \in Whitespace THEN StripWs(SubSeq(t, 1, Len(t) - 1))
  ELSE t

\* The value of a run of decimal digits; an underscore between two digits
\* counts for nothing.
RECURSIVE DigitsValue(_)
DigitsValue(t) ==
  IF t = <<>> THEN 0
  ELSE IF t[Len(t)] = UNDERSCORE THEN DigitsValue(SubSeq(t, 1, Len(t) - 1))
  ELSE 10 * DigitsValue(SubSeq(t, 1, Len(t) - 1)) + DigitValue(t[Len(t)])

\* What int() takes for the digits of a number: decimal digits, with single
\* underscores between them.
IsDigitRun(body) ==
  /\ body # <<>>
  /\ IsDigit(body[1])
  /\ IsDigit(body[Len(body)])
  /\ \A i \in 1..Len(body) : IsDigit(body[i]) \/ body[i] = UNDERSCORE
  /\ \A i \in 1..(Len(body) - 1) : body[i] # UNDERSCORE \/ body[i + 1] # UNDERSCORE

SignedValue(sign, body) ==
  IF ~IsDigitRun(body)
    THEN [err |-> "ValueError", val |-> 0]
    ELSE [err |-> "",
          val |-> IF sign = MINUS THEN 0 - DigitsValue(body) ELSE DigitsValue(body)]

ParseInt(s) ==
  IF s # <<>> /\ s[1] \in {PLUS, MINUS}
    THEN SignedValue(s[1], Tail(s)) ELSE SignedValue(PLUS, s)

\* int(text): optional surrounding whitespace, optional sign, decimal digits.
PyInt(t) == ParseInt(StripWs(t))

\* bytes.decode("utf-8"). Utf8Width is the number of bytes of the well-formed
\* sequence that begins at b[i] (0 when there is none: a stray continuation
\* byte, a cut sequence, an overlong form, a surrogate, a code point beyond
\* U+10FFFF); Utf8Point is the code point it encodes.
IsCont(b, j) == j <= Len(b) /\ b[j] >= 128 /\ b[j] <= 191

Utf8Second(c) ==
  IF c = 224 THEN 160..191
  ELSE IF c = 237 THEN 128..159
  ELSE IF c = 240 THEN 144..191
  ELSE IF c = 244 THEN 128..143
  ELSE 128..191

Utf8Lead(c) ==
  IF c < 128 THEN 1
  ELSE IF c >= 194 /\ c <= 223 THEN 2
  ELSE IF c >= 224 /\ c <= 239 THEN 3
  ELSE IF c >= 240 /\ c <= 244 THEN 4
  ELSE 0

Utf8Width(b, i) ==
  IF Utf8Lead(b[i]) = 1 THEN 1
  ELSE IF /\ Utf8Lead(b[i]) >= 2
          /\ i + Utf8Lead(b[i]) - 1 <= Len(b)
          /\ b[i + 1] \in Utf8Second(b[i])
          /\ \A j \in (i + 2)..(i + Utf8Lead(b[i]) - 1) : IsCont(b, j)
    THEN Utf8Lead(b[i])
  ELSE 0

Utf8Point(b, i, w) ==
  IF w = 1 THEN b[i]
  ELSE IF w = 2 THEN (b[i] - 192) * 64 + (b[i + 1] - 128)
  ELSE IF w = 3
    THEN (b[i] - 224) * 4096 + (b[i + 1] - 128) * 64 + (b[i + 2] - 128)
  ELSE (b[i] - 240) * 262144 + (b[i + 1] - 128) * 4096
       + (b[i + 2] - 128) * 64 + (b[i + 3] - 128)

\* Some(the text of b[i..]), or None when it is not well-formed UTF-8.
RECURSIVE Utf8From(_, _)
Utf8Rest(b, i, w, rest) ==
  IF rest = None THEN None ELSE Some(<<Utf8Point(b, i, w)>> \o rest[1])

Utf8Next(b, i, w) ==
  IF w = 0 THEN None ELSE Utf8Rest(b, i, w, Utf8From(b, i + w))

Utf8From(b, i) ==
  IF i > Len(b) THEN Some(<<>>) ELSE Utf8Next(b, i, Utf8Width(b, i))

\* ASCII bytes are their own text.
IsAscii(b) == \A i \in 1..Len(b) : b[i] < 128

Undecodable(b) == ~IsAscii(b) /\ Utf8From(b, 1) = None

\* The text of bytes that are well-formed UTF-8.
Utf8Text(b) == IF IsAscii(b) THEN b ELSE Utf8From(b, 1)[1]

\* util.parse_big_endian
RECURSIVE parse_big_endian(_)
parse_big_endian(be_bytes) ==
  IF be_bytes = <<>> THEN 0
  ELSE parse_big_endian(SubSeq(be_bytes, 1, Len(be_bytes) - 1)) * 256
       + be_bytes[Len(be_bytes)]

\* --------------------------------------------------------- BufferStream --
\* A read returns [err, val, s]: the exception class, the value read and the
\* stream after the call.
BufferStream(data) == [data |-> data, cursor |-> 0]

more_to_read(s) == s.cursor < Len(s.data)

seek(s, position) ==
  IF position = None THEN s ELSE [s EXCEPT !.cursor = position[1]]

new_cursor(s, length) ==
  IF length = None THEN Len(s.data) ELSE s.cursor + length[1]

Raise(kind, s) == [err |-> kind, val |-> <<>>, s |-> s]
Return(val, s) == [err |-> "", val |-> val, s |-> s]

\* parse.py lines 38-41: the length check on the slice that was taken.
taken(s, length, result) ==
  IF length # None /\ Len(result) # length[1]
    THEN Raise("BufferStreamIndexError", s)
    ELSE Return(result, [s EXCEPT !.cursor = new_cursor(s, length)])

read_bytes(s0, length, position) ==
  taken(seek(s0, position), length,
        PySlice(seek(s0, position).data, seek(s0, position).cursor,
                new_cursor(seek(s0, position), length)))

decode(r) ==
  IF r.err # "" THEN r
  ELSE IF Undecodable(r.val) THEN Raise("UnicodeDecodeError", r.s)
  ELSE Return(Utf8Text(r.val), r.s)

read_ascii(s, length, position) == decode(read_bytes(s, length, position))

int_result(n, s) ==
  IF n.err # "" THEN Raise(n.err, s) ELSE [err |-> "", val |-> n.val, s |-> s]

to_int(r) == IF r.err # "" THEN r ELSE int_result(PyInt(r.val), r.s)

read_ascii_integer(s, length, position) == to_int(read_ascii(s, length, position))

to_dword(r) ==
  IF r.err # "" THEN r
  ELSE [err |-> "", val |-> parse_big_endian(r.val), s |-> r.s]

read_big_endian_dword(s, position) == to_dword(read_bytes(s, Some(4), position))

\* The scan `while self.data[string_end_offset] != 0`: the offset of the
\* first zero byte at or after i, or None when indexing leaves the buffer.
RECURSIVE ScanZero(_, _)
ScanZero(data, i) ==
  IF PyItem(data, i) = None THEN None
  ELSE IF PyItem(data, i)[1] = NUL THEN Some(i)
  ELSE ScanZero(data, i + 1)

\* parse.py lines 65-68: the text before the zero byte at offset e.
cstring(s, e, b) ==
  IF Undecodable(b) THEN Raise("UnicodeDecodeError", s)
  ELSE Return(Utf8Text(b), [s EXCEPT !.cursor = e + 1])

scanned(s, e) ==
  IF e = None THEN Raise("IndexError", s)
  ELSE cstring(s, e[1], PySlice(s.data, s.cursor, e[1]))

\* parse.py lines 55-68: read_cstring once the seek is done.
scan(s) ==
  IF ~more_to_read(s) THEN Raise("BufferStreamIndexError", s)
  ELSE scanned(s, ScanZero(s.data, s.cursor))

\* read_cstring that forgets its seek argument and scans from the cursor.
read_cstring_no_seek(s0, position) == scan(s0)

read_cstring(s0, position) == scan(seek(s0, position))

\* parse.py lines 72-75. The sub-stream is the value; the advanced parent
\* stream is in `s`.
sub_stream(s, length) ==
  [err |-> "",
   val |-> BufferStream(PySlice(s.data, s.cursor, new_cursor(s, length))),
   s |-> [s EXCEPT !.cursor = new_cursor(s, length)]]

read_sub_stream(s0, length, position) == sub_stream(seek(s0, position), length)

\* -------------------------------------------------------- ArchiveReader --
\* `print(..., file = sys.stderr)`: ar.py never imports `sys`, so evaluating
\* the argument `sys.stderr` raises NameError before anything is printed.
print_stderr == "NameError"

Member(name, date, user_id, group_id, mode, size, content) ==
  [name |-> name, date |-> date, user_id |-> user_id, group_id |-> group_id,
   mode |-> mode, size |-> size, content |-> content]

NoMember == Member(<<>>, 0, <<>>, <<>>, 0, 0, BufferStream(<<>>))

endswith_slash(t) == t # <<>> /\ t[Len(t)] = SLASH
startswith_slash(t) == t # <<>> /\ t[1] = SLASH

\* A name resolution returns [err, name, fm]; fm is filename_member (None or
\* Some(Member)) after the call: read_cstring moves the cursor of its content.
Named(kind, name, fm) == [err |-> kind, name |-> name, fm |-> fm]

\* ar.py lines 87-88
unique(name, fm, member_names) ==
  Named(IF name \in member_names THEN "ArchiveReadException" ELSE "", name, fm)

\* ar.py line 83, then lines 87-88
looked_up(r, filename, fm, member_names) ==
  IF r.err # ""
    THEN Named(r.err, filename, Some([fm[1] EXCEPT !.content = r.s]))
    ELSE unique(r.val, Some([fm[1] EXCEPT !.content = r.s]), member_names)

\* A lookup that takes the name field itself for the name when no lookup
\* member is recorded, instead of raising.
lookup_unrecorded(filename, filename_offset, fm, member_names) ==
  IF filename_offset.err # "" THEN Named(filename_offset.err, filename, fm)
  ELSE IF fm = None THEN unique(filename, fm, member_names)
  ELSE looked_up(read_cstring(fm[1].content, Some(filename_offset.val)),
                 filename, fm, member_names)

\* ar.py lines 78-83
lookup(filename, filename_offset, fm, member_names) ==
  IF filename_offset.err # "" THEN Named(filename_offset.err, filename, fm)
  ELSE IF fm = None THEN Named("ArchiveReadException", filename, fm)
  ELSE looked_up(read_cstring(fm[1].content, Some(filename_offset.val)),
                 filename, fm, member_names)

\* ar.py lines 71-88: the name a header's trimmed name field stands for.
ResolveFilename(filename, fm, member_names) ==
  IF filename \in {<<SLASH>>, <<SLASH, SLASH>>} THEN Named("", filename, fm)
  ELSE IF endswith_slash(filename)
    THEN unique(SubSeq(filename, 1, Len(filename) - 1), fm, member_names)
  ELSE IF startswith_slash(filename)
    THEN lookup(filename, PyInt(Tail(filename)), fm, member_names)
  ELSE Named("ArchiveReadException", filename, fm)

\* _read_member returns [err, member, s, fm]: the stream and the filename
\* member after the call. In the steps below r is the read just made, m the
\* Member as far as it is known.
MemberFail(kind, s, fm) == [err |-> kind, member |-> NoMember, s |-> s, fm |-> fm]

\* A content read whose main stream shares its cursor with the content of
\* the lookup member.
read_content_shared(c, fm, m) ==
  [err |-> "", member |-> [m EXCEPT !.content = c.val],
   s |-> IF fm = None THEN c.s ELSE [c.s EXCEPT !.cursor = fm[1].content.cursor],
   fm |-> fm]

\* ar.py lines 110-122
read_content(c, fm, m) ==
  [err |-> "", member |-> [m EXCEPT !.content = c.val], s |-> c.s, fm |-> fm]

\* ar.py lines 105-110
read_padding(r, fm, m) ==
  IF r.err # "" THEN MemberFail(r.err, r.s, fm)
  ELSE IF r.val[1] # NL THEN MemberFail(print_stderr, r.s, fm)
  ELSE read_content(read_sub_stream(r.s, Some(m.size), None), fm, m)

\* ar.py lines 95-110
read_end_header(r, fm, m) ==
  IF r.err # "" THEN MemberFail(r.err, r.s, fm)
  ELSE IF r.val[1] # BACKQUOTE \/ r.val[2] # NL THEN MemberFail(print_stderr, r.s, fm)
  ELSE IF r.s.cursor % 2 # 0 THEN read_padding(read_bytes(r.s, Some(1), None), fm, m)
  ELSE read_content(read_sub_stream(r.s, Some(m.size), None), fm, m)

\* ar.py lines 94-95
read_size(r, fm, m) ==
  IF r.err # "" THEN MemberFail(r.err, r.s, fm)
  ELSE read_end_header(read_bytes(r.s, Some(2), None), fm, [m EXCEPT !.size = r.val])

\* ar.py lines 93-94
read_mode(r, fm, m) ==
  IF r.err # "" THEN MemberFail(r.err, r.s, fm)
  ELSE read_size(read_ascii_integer(r.s, Some(10), None), fm, [m EXCEPT !.mode = r.val])

\* ar.py lines 92-93
read_group_id(r, fm, m) ==
  IF r.err # "" THEN MemberFail(r.err, r.s, fm)
  ELSE read_mode(read_ascii_integer(r.s, Some(8), None), fm,
                 [m EXCEPT !.group_id = rstrip(r.val)])

\* ar.py lines 91-92
read_user_id(r, fm, m) ==
  IF r.err # "" THEN MemberFail(r.err, r.s, fm)
  ELSE read_group_id(read_ascii(r.s, Some(6), None), fm,
                     [m EXCEPT !.user_id = rstrip(r.val)])

\* ar.py lines 90-91
read_date(r, fm, m) ==
  IF r.err # "" THEN MemberFail(r.err, r.s, fm)
  ELSE read_user_id(read_ascii(r.s, Some(6), None), fm, [m EXCEPT !.date = r.val])

\* ar.py lines 71-90: nm is the resolved name, s the stream after the name.
read_filename(nm, s) ==
  IF nm.err # "" THEN MemberFail(nm.err, s, nm.fm)
  ELSE read_date(read_ascii_integer(s, Some(12), None), nm.fm,
                 [NoMember EXCEPT !.name = nm.name])

\* ar.py lines 70-71: r is the 16-byte name field.
read_name_field(r, fm, member_names) ==
  IF r.err # "" THEN MemberFail(r.err, r.s, fm)
  ELSE read_filename(ResolveFilename(rstrip(r.val), fm, member_names), r.s)

\* ArchiveReader._read_member(data_stream, filename_member); member_names is
\* the key set of self.members.
read_member(data_stream, filename_member, member_names) ==
  read_name_field(read_ascii(data_stream, Some(16), None), filename_member,
                  member_names)

\* ------------------------------------------------------ archive buffers --
\* An archive description: the magic, the plan of the first index member, the
\* members that follow it, and the number of bytes cut off the end of the file.
\*   member : [name (the text of the name field), content, term, pad], and
\*            a field `size` (the text of the size field) when the header
\*            declares another size than the length of the content
\*   index  : [name, count, refs, names, term, pad]; refs[i] is the position in
\*            `members` of the member symbol i points at (0: no member).
GoodTerm == <<BACKQUOTE, NL>>

RECURSIVE Spaces(_)
Spaces(n) == IF n <= 0 THEN <<>> ELSE <<SP>> \o Spaces(n - 1)

Field(text, width) == text \o Spaces(width - Len(text))

RECURSIVE Dec(_)
Dec(n) == IF n < 10 THEN <<ZERO + n>> ELSE Dec(n \div 10) \o <<ZERO + (n % 10)>>

BE32(n) == <<(n \div 16777216) % 256, (n \div 65536) % 256, (n \div 256) % 256, n % 256>>

HeaderBytes(name, size, term) ==
  Field(name, 16) \o Field(<<ZERO>>, 12) \o Field(<<>>, 6) \o Field(<<>>, 6)
  \o Field(<<ZERO>>, 8) \o Field(size, 10) \o term

\* The text of the size field.
SizeText(d) == IF "size" \in DOMAIN d THEN d.size ELSE Dec(Len(d.content))

MemberBytes(d) == HeaderBytes(d.name, SizeText(d), d.term) \o d.content \o d.pad

RECURSIVE Concat(_)
Concat(ss) == IF ss = <<>> THEN <<>> ELSE Head(ss) \o Concat(Tail(ss))

IndexSize(ix) ==
  4 + 4 * Len(ix.refs) + Len(Concat([i \in 1..Len(ix.names) |-> ix.names[i] \o <<NUL>>]))

\* Offset in the file at which the header of members[i] begins.
RECURSIVE HeaderStart(_, _)
HeaderStart(a, i) ==
  IF i = 1 THEN Len(a.magic) + 60 + IndexSize(a.index) + Len(a.index.pad)
  ELSE HeaderStart(a, i - 1) + Len(MemberBytes(a.members[i - 1]))

\* The offset a symbol's reference r stands for: the header of members[r],
\* the header of the first index (r = 0), or the first content byte of
\* members[-r] (r < 0).
RefOffset(a, r) ==
  IF r = 0 THEN Len(a.magic)
  ELSE IF r < 0 THEN HeaderStart(a, 0 - r) + 60
  ELSE HeaderStart(a, r)

IndexContent(a) ==
  BE32(a.index.count)
  \o Concat([i \in 1..Len(a.index.refs) |-> BE32(RefOffset(a, a.index.refs[i]))])
  \o Concat([i \in 1..Len(a.index.names) |-> a.index.names[i] \o <<NUL>>])

IndexDesc(a) ==
  [name |-> a.index.name, content |-> IndexContent(a), term |-> a.index.term,
   pad |-> a.index.pad]

FullBytes(a) ==
  a.magic \o MemberBytes(IndexDesc(a))
  \o Concat([i \in 1..Len(a.members) |-> MemberBytes(a.members[i])])

\* The buffer handed to load.
Bytes(a) == LET b == FullBytes(a) IN SubSeq(b, 1, Len(b) - Min2(a.cut, Len(b)))

\* ------------------------------------------------------- the input space --
MaxBody == 1
MaxCut == 1
MaxLoads == 2
MaxCatalog == 3

PadFor(content) == IF Len(content) % 2 = 1 THEN <<NL>> ELSE <<>>

Desc(name, content, term, pad) ==
  [name |-> name, content |-> content, term |-> term, pad |-> pad]

Reg(name, content) == Desc(name, content, GoodTerm, PadFor(content))

IDX2 == Reg(<<SLASH>>, <<0, 0, 0, 0>>)
FN == Reg(<<SLASH, SLASH>>, <<97, 98, 0, 99, 100, 0>>)
FN2 == Reg(<<SLASH, SLASH>>, <<99, 100, 0, 97, 98, 0>>)
MemA == Reg(<<97, SLASH>>, <<65, 65>>)
MemB == Reg(<<98, SLASH>>, <<66>>)
MemC == Reg(<<99, SLASH>>, <<67, 67>>)
MemABadTerm == Desc(<<97, SLASH>>, <<65, 65>>, <<BACKQUOTE, 13>>, <<>>)
MemBBadPad == Desc(<<98, SLASH>>, <<66>>, GoodTerm, <<33>>)
Long0 == Reg(<<SLASH, ZERO>>, <<68, 68>>)
Long3 == Reg(<<SLASH, ZERO + 3>>, <<69, 69>>)
RawSlash == Reg(<<SLASH>>, <<70, 70>>)
TripleSlash == Reg(<<SLASH, SLASH, SLASH>>, <<97, 98, 0>>)
NoSlash == Reg(<<120>>, <<>>)
TripleEven == Reg(<<SLASH, SLASH, SLASH>>, <<97, 98, 0, 0>>)
\* A name and a lookup table beyond ASCII ("\xc3\xa9" is U+00E9), a size
\* field "0_2", a size field that begins with the separator byte 0x1c.
Utf8Mem == Reg(<<195, 169, SLASH>>, <<71, 71>>)
Utf8FN == Reg(<<SLASH, SLASH>>, <<195, 169, 0, 0>>)
UnderSize ==
  [name |-> <<117, SLASH>>, content |-> <<72, 72>>, term |-> GoodTerm,
   pad |-> <<>>, size |-> <<ZERO, UNDERSCORE, ZERO + 2>>]
SepSize ==
  [name |-> <<118, SLASH>>, content |-> <<73, 73>>, term |-> GoodTerm,
   pad |-> <<>>, size |-> <<28, ZERO + 2>>]

\* A header named "/" that declares the size -60 and has no content.
BackSlash ==
  [name |-> <<SLASH>>, content |-> <<>>, term |-> GoodTerm, pad |-> <<>>,
   size |-> <<MINUS, ZERO + 6, ZERO>>]

\* How an archive begins after its first index, and what may follow.
Heads == {<<>>, <<IDX2>>, <<IDX2, FN>>, <<IDX2, FN, Long0>>, <<IDX2, FN, Long3>>,
          <<IDX2, MemA>>, <<IDX2, MemB>>, <<IDX2, RawSlash>>, <<IDX2, TripleSlash>>}

BodyDescs == {MemA, MemB, MemABadTerm, MemBBadPad, Long0, Long3, RawSlash,
              TripleSlash, FN2, NoSlash}

BodiesOver(descs) == UNION {[1..n -> descs] : n \in 0..MaxBody}

Plan(count, refs, names) ==
  [name |-> <<SLASH>>, count |-> count, refs |-> refs, names |-> names,
   term |-> GoodTerm,
   pad |-> PadFor(Concat([i \in 1..Len(names) |-> names[i] \o <<NUL>>]))]

\* Positions in ms of the members whose name field is not a special marker.
RECURSIVE Plain(_, _)
Plain(ms, i) ==
  IF i > Len(ms) THEN <<>>
  ELSE (IF ms[i].name \in {<<SLASH>>, <<SLASH, SLASH>>} THEN <<>> ELSE <<i>>)
       \o Plain(ms, i + 1)

\* The index that names every plain member: symbol i is "s", "t", ...
PlanEach(ms) ==
  LET refs == Plain(ms, 1)
  IN  Plan(Len(refs), refs, [i \in 1..Len(refs) |-> <<114 + i>>])

\* Other index plans: no symbol; a count with nothing behind it; one symbol
\* name twice; an offset that is no member's; one name short; a two-letter
\* name (the index has an odd size and a pad byte).
OtherPlans(ms) ==
  LET last == Len(ms)
  IN  { Plan(0, <<>>, <<>>),
        Plan(1, <<>>, <<>>),
        Plan(2, <<last, last>>, <<<<115>>, <<115>>>>),
        Plan(1, <<0>>, <<<<115>>>>),
        Plan(2, <<last, last>>, <<<<115>>>>),
        Plan(1, <<last>>, <<<<115, 116>>>>) }

BadMagic == <<33, 60, 97, 114, 99, 104, 62, 13>>

Archive(magic, index, ms, cut) ==
  [magic |-> magic, index |-> index, members |-> ms, cut |-> cut]

PlainOnly(ms) == \A i \in 1..Len(ms) : ms[i] \in {IDX2, MemA, MemB}

\* Every member list with the index that names its plain members, and every
\* other index plan over the lists of plain members.
Generated ==
  UNION { UNION { { Archive(MAGIC, ix, h \o b, cut) :
                      ix \in {PlanEach(h \o b)}
                             \cup (IF PlainOnly(h \o b) THEN OtherPlans(h \o b) ELSE {}),
                      cut \in 0..MaxCut } :
                  b \in BodiesOver(BodyDescs) } :
          h \in Heads }

\* A wrong magic, a buffer shorter than the magic, a first member that is
\* not the index.
BadMagicArchive == Archive(BadMagic, Plan(0, <<>>, <<>>), <<IDX2, MemA>>, 0)

\* A long name ahead of the lookup member, and as the first member; symbols
\* that point at the second index, at the lookup member and into a member;
\* a long name behind two lookup members; a name field "///"; a header that
\* declares a negative size; names beyond ASCII; size fields that int()
\* reads and refuses.
Specials ==
  { BadMagicArchive,
    Archive(MAGIC, Plan(0, <<>>, <<>>), <<>>, 66),
    Archive(MAGIC, [Plan(0, <<>>, <<>>) EXCEPT !.name = <<97, SLASH>>], <<IDX2>>, 0),
    Archive(MAGIC, Plan(0, <<>>, <<>>), <<IDX2, Long0, FN>>, 0),
    Archive(MAGIC, [Plan(0, <<>>, <<>>) EXCEPT !.name = <<SLASH, ZERO>>], <<IDX2, FN>>, 0),
    Archive(MAGIC, Plan(1, <<1>>, <<<<115>>>>), <<IDX2, MemA>>, 0),
    Archive(MAGIC, Plan(1, <<2>>, <<<<115>>>>), <<IDX2, FN, Long0>>, 0),
    Archive(MAGIC, Plan(1, <<0 - 2>>, <<<<115>>>>), <<IDX2, MemA>>, 0),
    Archive(MAGIC, Plan(1, <<4>>, <<<<115>>>>), <<IDX2, FN, FN2, Long0>>, 0),
    Archive(MAGIC, Plan(1, <<3>>, <<<<115>>>>), <<IDX2, TripleEven, Long0>>, 0),
    Archive(MAGIC, Plan(0, <<>>, <<>>), <<IDX2, BackSlash>>, 0),
    Archive(MAGIC, Plan(1, <<2>>, <<<<195, 169, 97>>>>), <<IDX2, Utf8Mem>>, 0),
    Archive(MAGIC, Plan(1, <<3>>, <<<<115>>>>), <<IDX2, Utf8FN, Long0>>, 0),
    Archive(MAGIC, Plan(1, <<2>>, <<<<115>>>>), <<IDX2, UnderSize>>, 0),
    Archive(MAGIC, Plan(1, <<2>>, <<<<115>>>>), <<IDX2, SepSize>>, 0) }

Archives == Generated \cup Specials

\* The buffer offered to a second and later load, besides the one just loaded.
ReloadArchives ==
  { Archive(MAGIC, Plan(1, <<2>>, <<<<116>>>>), <<IDX2, MemC>>, 0),
    BadMagicArchive }

\* ------------------------------------------------------------- the state --
VARIABLES
  members,                      \* self.members: name -> Member
  symbol_member_map,            \* self.symbol_member_map: symbol -> member name
  pc,                           \* position of the running load call
  err,                          \* exception class raised by the last load
  data_stream,                  \* load: the main stream over the buffer
  index_member,                 \* load: the first member
  is_first_member_after_index,  \* load: flag of the catalog loop
  member_name_by_offset,        \* load: header offset -> member name
  filename_member,              \* load: None or Some(the "//" member)
  member_offset_stream,         \* load: the offsets of the symbol index
  symbol_name_stream,           \* load: the names of the symbol index
  arch,                         \* the archive description the buffer encodes
  loads,                        \* number of load calls so far
  cataloged,                    \* <<offset, name>> of each insertion of this load
  pre,                          \* both maps as they were when this load began
  history                       \* outcome of every finished load, in order

vars == <<members, symbol_member_map, pc, err, data_stream, index_member,
          is_first_member_after_index, member_name_by_offset, filename_member,
          member_offset_stream, symbol_name_stream, arch, loads, cataloged,
          pre, history>>

EmptyDict == <<>>

\* dict[key] = value
DictSet(dict, key, value) ==
  [k \in (DOMAIN dict) \cup {key} |-> IF k = key THEN value ELSE dict[k]]

EmptyStream == BufferStream(<<>>)

Outcome(kind, m, smm) ==
  [arch |-> arch, err |-> kind, members |-> m, symbol_member_map |-> smm,
   pre |-> pre, cataloged |-> cataloged]

\* load leaves by an exception (kind # "") or by returning (kind = ""); its
\* local variables die with the call.
Leave(kind, m, smm) ==
  /\ pc' = IF kind = "" THEN "done" ELSE "failed"
  /\ err' = kind
  /\ members' = m
  /\ symbol_member_map' = smm
  /\ data_stream' = EmptyStream
  /\ index_member' = NoMember
  /\ is_first_member_after_index' = FALSE
  /\ member_name_by_offset' = EmptyDict
  /\ filename_member' = None
  /\ member_offset_stream' = EmptyStream
  /\ symbol_name_stream' = EmptyStream
  /\ history' = Append(history, Outcome(kind, m, smm))
  /\ UNCHANGED <<arch, loads, cataloged, pre>>

\* ---------------------------------------------------------------- load --
Idle == pc \in {"idle", "done", "failed"}

\* ArchiveReader.reset
Reset ==
  /\ Idle
  /\ members # EmptyDict \/ symbol_member_map # EmptyDict
  /\ members' = EmptyDict
  /\ symbol_member_map' = EmptyDict
  /\ UNCHANGED <<pc, err, data_stream, index_member, is_first_member_after_index,
                 member_name_by_offset, filename_member, member_offset_stream,
                 symbol_name_stream, arch, loads, cataloged, pre, history>>

\* ar.py lines 125-129 with the outcome of the magic check: kind is the
\* exception raised ("" for none), s the stream after the magic.
StartLoad(a, kind, s) ==
  /\ loads' = loads + 1
  /\ arch' = a
  /\ cataloged' = <<>>
  /\ pre' = [members |-> members, symbol_member_map |-> symbol_member_map]
  /\ err' = kind
  /\ pc' = IF kind = "" THEN "first_index" ELSE "failed"
  /\ data_stream' = IF kind = "" THEN s ELSE EmptyStream
  /\ history' = IF kind = "" THEN history
                ELSE Append(history,
                       [arch |-> a, err |-> kind, members |-> members,
                        symbol_member_map |-> symbol_member_map,
                        pre |-> pre', cataloged |-> <<>>])
  /\ index_member' = NoMember
  /\ is_first_member_after_index' = FALSE
  /\ member_name_by_offset' = EmptyDict
  /\ filename_member' = None
  /\ member_offset_stream' = EmptyStream
  /\ symbol_name_stream' = EmptyStream
  /\ UNCHANGED <<members, symbol_member_map>>

\* A magic check that accepts any 8 bytes.
CheckMagic_any(a, magic) == StartLoad(a, magic.err, magic.s)

\* ar.py lines 127-129
CheckMagic(a, magic) ==
  StartLoad(a,
            IF magic.err # "" THEN magic.err
            ELSE IF magic.val # MAGIC THEN "ArchiveReadException"
            ELSE "",
            magic.s)

\* ar.py lines 124-129: load(data) up to the magic check.
Load(a) ==
  /\ Idle
  /\ loads < MaxLoads
  /\ CheckMagic(a, read_bytes(BufferStream(Bytes(a)), Some(8), None))

\* ar.py lines 132-138: r is what _read_member returned for the first member.
FirstMember(r) ==
  IF r.err # "" THEN Leave(r.err, members, symbol_member_map)
  ELSE IF r.member.name # <<SLASH>>
    THEN Leave("ArchiveReadException", members, symbol_member_map)
  ELSE /\ pc' = "catalog"
       /\ index_member' = r.member
       /\ data_stream' = r.s
       /\ is_first_member_after_index' = TRUE
       /\ member_name_by_offset' = EmptyDict
       /\ filename_member' = None
       /\ UNCHANGED <<members, symbol_member_map, err, member_offset_stream,
                      symbol_name_stream, arch, loads, cataloged, pre, history>>

\* ar.py lines 131-138: the first member must be the index "/".
ReadFirstIndex ==
  /\ pc = "first_index"
  /\ FirstMember(read_member(data_stream, None, DOMAIN members))

\* A catalog loop whose flag never clears: every member named "/" is dropped
\* as a second index.
Classify_every_index(name, first_after_index, fm) ==
  IF name = <<SLASH>> THEN "skip"
  ELSE IF first_after_index THEN "warn"
  ELSE IF name = <<SLASH, SLASH>> THEN (IF fm = None THEN "filename" ELSE "warn")
  ELSE "catalog"

\* ar.py lines 143-156: what the catalog loop does with the member it read:
\* "skip" (continue without cataloging), "filename" (record as the lookup
\* member), "warn" (a warning is printed) or "catalog".
Classify(name, first_after_index, fm) ==
  IF first_after_index /\ name = <<SLASH>> THEN "skip"
  ELSE IF first_after_index THEN "warn"
  ELSE IF name = <<SLASH, SLASH>> THEN (IF fm = None THEN "filename" ELSE "warn")
  ELSE "catalog"

\* The catalog loop without its insertion into self.members.
store_member_lost(ms, member) == ms

\* ar.py line 159: self.members[member.name] = member
store_member(ms, member) == DictSet(ms, member.name, member)

\* ar.py lines 143-159: r is what _read_member returned for the header at
\* file_offset, class what Classify makes of it.
Cataloged(file_offset, r, class) ==
  IF class = "warn" THEN Leave(print_stderr, members, symbol_member_map)
  ELSE /\ data_stream' = r.s
       /\ is_first_member_after_index' = FALSE
       /\ filename_member' = IF class = "filename" THEN Some(r.member) ELSE r.fm
       /\ member_name_by_offset' =
            IF class = "catalog"
              THEN DictSet(member_name_by_offset, file_offset, r.member.name)
              ELSE member_name_by_offset
       /\ members' = IF class = "catalog"
                       THEN store_member(members, r.member)
                       ELSE members
       /\ cataloged' = IF class = "catalog"
                         THEN Append(cataloged, <<file_offset, r.member.name>>)
                         ELSE cataloged
       /\ UNCHANGED <<symbol_member_map, pc, err, index_member,
                      member_offset_stream, symbol_name_stream, arch, loads,
                      pre, history>>

\* ar.py lines 141-159
NextMember(file_offset, r) ==
  IF r.err # "" THEN Leave(r.err, members, symbol_member_map)
  ELSE Cataloged(file_offset, r,
                 Classify(r.member.name, is_first_member_after_index, r.fm))

\* ar.py lines 139-159: one iteration of the catalog loop. The loop is
\* followed for as long as fewer than MaxCatalog insertions were made.
CatalogMember ==
  /\ pc = "catalog"
  /\ more_to_read(data_stream)
  /\ Len(cataloged) < MaxCatalog
  /\ NextMember(data_stream.cursor,
                read_member(data_stream, filename_member, DOMAIN members))

\* ar.py lines 168-173: offsets and names are the two sub-stream reads.
SplitIndex(offsets, names) ==
  /\ pc' = "symbols"
  /\ index_member' = [index_member EXCEPT !.content = names.s]
  /\ member_offset_stream' = offsets.val
  /\ symbol_name_stream' = names.val
  /\ UNCHANGED <<members, symbol_member_map, err, data_stream,
                 is_first_member_after_index, member_name_by_offset,
                 filename_member, arch, loads, cataloged, pre, history>>

\* ar.py lines 168-173
IndexOffsets(offsets) == SplitIndex(offsets, read_sub_stream(offsets.s, None, None))

\* ar.py lines 165-168
SymbolCount(symbol_count) ==
  IF symbol_count.err # ""
    THEN Leave(symbol_count.err, members, symbol_member_map)
    ELSE IndexOffsets(read_sub_stream(symbol_count.s, Some(4 * symbol_count.val), None))

\* ar.py lines 165-173: the catalog loop is over; split the index content.
ParseIndex ==
  /\ pc = "catalog"
  /\ ~more_to_read(data_stream)
  /\ SymbolCount(read_big_endian_dword(index_member.content, None))

\* The frame of an iteration of the symbol loop that stays in the loop.
SymbolFrame ==
  UNCHANGED <<members, pc, err, data_stream, index_member,
              is_first_member_after_index, member_name_by_offset,
              filename_member, arch, loads, cataloged, pre, history>>

\* A symbol loop without the check of lines 180-183: a symbol that is
\* already mapped is mapped again.
Symbol_overwrite(member_offset, symbol_name) ==
  IF member_offset.err # ""
    THEN Leave(member_offset.err, members, symbol_member_map)
  ELSE IF symbol_name.err # ""
    THEN Leave(symbol_name.err, members, symbol_member_map)
  ELSE IF member_offset.val \notin DOMAIN member_name_by_offset
    THEN Leave("KeyError", members, symbol_member_map)
  ELSE /\ member_offset_stream' = member_offset.s
       /\ symbol_name_stream' = symbol_name.s
       /\ symbol_member_map' =
            DictSet(symbol_member_map, symbol_name.val,
                    member_name_by_offset[member_offset.val])
       /\ SymbolFrame

\* A symbol loop that passes over a symbol whose offset is not in the table
\* (member_name_by_offset.get instead of the subscript of line 179).
Symbol_skip(member_offset, symbol_name) ==
  IF member_offset.err # ""
    THEN Leave(member_offset.err, members, symbol_member_map)
  ELSE IF symbol_name.err # ""
    THEN Leave(symbol_name.err, members, symbol_member_map)
  ELSE IF member_offset.val \notin DOMAIN member_name_by_offset
    THEN /\ member_offset_stream' = member_offset.s
         /\ symbol_name_stream' = symbol_name.s
         /\ UNCHANGED symbol_member_map
         /\ SymbolFrame
  ELSE IF symbol_name.val \in DOMAIN symbol_member_map
    THEN Leave("ArchiveReadException", members, symbol_member_map)
  ELSE /\ member_offset_stream' = member_offset.s
       /\ symbol_name_stream' = symbol_name.s
       /\ symbol_member_map' =
            DictSet(symbol_member_map, symbol_name.val,
                    member_name_by_offset[member_offset.val])
       /\ SymbolFrame

\* ar.py lines 176-184
Symbol(member_offset, symbol_name) ==
  IF member_offset.err # ""
    THEN Leave(member_offset.err, members, symbol_member_map)
  ELSE IF symbol_name.err # ""
    THEN Leave(symbol_name.err, members, symbol_member_map)
  ELSE IF member_offset.val \notin DOMAIN member_name_by_offset
    THEN Leave("KeyError", members, symbol_member_map)
  ELSE IF symbol_name.val \in DOMAIN symbol_member_map
    THEN Leave("ArchiveReadException", members, symbol_member_map)
  ELSE /\ member_offset_stream' = member_offset.s
       /\ symbol_name_stream' = symbol_name.s
       /\ symbol_member_map' =
            DictSet(symbol_member_map, symbol_name.val,
                    member_name_by_offset[member_offset.val])
       /\ UNCHANGED <<members, pc, err, data_stream, index_member,
                      is_first_member_after_index, member_name_by_offset,
                      filename_member, arch, loads, cataloged, pre, history>>

\* ar.py lines 175-184: one iteration of the symbol loop.
MapSymbol ==
  /\ pc = "symbols"
  /\ more_to_read(member_offset_stream)
  /\ Symbol(read_big_endian_dword(member_offset_stream, None),
            read_cstring(symbol_name_stream, None))

\* ar.py line 175: the symbol loop is over and load returns.
LoadReturn ==
  /\ pc = "symbols"
  /\ ~more_to_read(member_offset_stream)
  /\ Leave("", members, symbol_member_map)

\* ------------------------------------------------------ the specification --
Init ==
  /\ members = EmptyDict
  /\ symbol_member_map = EmptyDict
  /\ pc = "idle"
  /\ err = ""
  /\ data_stream = EmptyStream
  /\ index_member = NoMember
  /\ is_first_member_after_index = FALSE
  /\ member_name_by_offset = EmptyDict
  /\ filename_member = None
  /\ member_offset_stream = EmptyStream
  /\ symbol_name_stream = EmptyStream
  /\ arch = Archive(MAGIC, Plan(0, <<>>, <<>>), <<>>, 0)
  /\ loads = 0
  /\ cataloged = <<>>
  /\ pre = [members |-> EmptyDict, symbol_member_map |-> EmptyDict]
  /\ history = <<>>

\* The first load takes any archive, the second the same buffer again or a
\* reload archive, every later one a reload archive.
LoadAny ==
  \E a \in (IF loads = 0 THEN Archives
            ELSE IF loads = 1 THEN {arch} \cup ReloadArchives
            ELSE ReloadArchives) : Load(a)

Next ==
  \/ LoadAny
  \/ ReadFirstIndex
  \/ CatalogMember
  \/ ParseIndex
  \/ MapSymbol
  \/ LoadReturn
  \/ Reset

Spec == Init /\ [][Next]_vars

\* ------------------------------------------------- what the format says --
\* Read off the archive description, not off the reader: which members an
\* archive holds, under which names, and where.
\* The decimal digits of a header field.
Digits == 48..57

IsNumber(t) == t # <<>> /\ \A i \in 1..Len(t) : t[i] \in Digits

\* "index" (name field "/"), "lookup" (name field "//"), "short" (a name
\* closed by a slash), "long" (a slash and a decimal offset) or "other".
Kind(d) ==
  IF d.name = <<SLASH>> THEN "index"
  ELSE IF d.name = <<SLASH, SLASH>> THEN "lookup"
  ELSE IF /\ Len(d.name) >= 2
          /\ d.name[Len(d.name)] = SLASH
          /\ \A i \in 1..(Len(d.name) - 1) : d.name[i] # SLASH THEN "short"
  ELSE IF Len(d.name) >= 2 /\ d.name[1] = SLASH /\ IsNumber(Tail(d.name)) THEN "long"
  ELSE "other"

IsPlain(d) == Kind(d) \in {"short", "long"}

HasTextAt(content, k) ==
  k < Len(content) /\ \E j \in (k + 1)..Len(content) : content[j] = NUL

\* The text stored in content from byte offset k up to the next zero byte.
TextAt(content, k) ==
  LET z == CHOOSE j \in (k + 1)..Len(content) :
             content[j] = NUL /\ \A i \in (k + 1)..(j - 1) : content[i] # NUL
  IN  SubSeq(content, k + 1, z - 1)

Lookups(ms) == {i \in 1..Len(ms) : Kind(ms[i]) = "lookup"}

FirstLookup(ms) == CHOOSE i \in Lookups(ms) : \A j \in Lookups(ms) : i <= j

LongOffset(d) == DigitsValue(Tail(d.name))

\* The bytes of the name of member i, and the name they spell.
RealNameBytes(ms, i) ==
  IF Kind(ms[i]) = "long"
    THEN TextAt(ms[FirstLookup(ms)].content, LongOffset(ms[i]))
    ELSE SubSeq(ms[i].name, 1, Len(ms[i].name) - 1)

RealName(ms, i) == Utf8Text(RealNameBytes(ms, i))

PlainPositions(ms) == {i \in 1..Len(ms) : IsPlain(ms[i])}

\* An archive the reader has to accept: the format of the spec's section 6,
\* whatever the terminator and pad bytes are, with or without a second index
\* and further lookup members.
Tolerable(a) ==
  LET ms == a.members
  IN  /\ a.magic = MAGIC
      /\ a.cut = 0
      /\ a.index.name = <<SLASH>>
      /\ Len(a.index.term) = 2
      /\ Len(a.index.pad) = IndexSize(a.index) % 2
      /\ a.index.count = Len(a.index.refs)
      /\ a.index.count = Len(a.index.names)
      /\ \A i \in 1..Len(a.index.refs) : a.index.refs[i] \in PlainPositions(ms)
      /\ \A i, j \in 1..Len(a.index.names) :
           a.index.names[i] = a.index.names[j] => i = j
      /\ \A i \in 1..Len(a.index.names) : ~Undecodable(a.index.names[i])
      /\ \A i \in 1..Len(ms) :
           /\ "size" \notin DOMAIN ms[i]
           /\ Kind(ms[i]) # "other"
           /\ Len(ms[i].term) = 2
           /\ Len(ms[i].pad) = Len(ms[i].content) % 2
           /\ Kind(ms[i]) = "index" => i = 1
           /\ Kind(ms[i]) = "long" =>
                /\ Lookups(ms) # {}
                /\ FirstLookup(ms) < i
                /\ HasTextAt(ms[FirstLookup(ms)].content, LongOffset(ms[i]))
           /\ IsPlain(ms[i]) => ~Undecodable(RealNameBytes(ms, i))
      /\ \A i, j \in PlainPositions(ms) : RealName(ms, i) = RealName(ms, j) => i = j

\* The four anomalies the reader is to report and survive.
Anomalies(a) ==
  LET ms == a.members
  IN  (IF a.index.term # GoodTerm \/ \E i \in 1..Len(ms) : ms[i].term # GoodTerm
         THEN {"terminator"} ELSE {})
      \cup (IF \/ a.index.pad \notin {<<>>, <<NL>>}
               \/ \E i \in 1..Len(ms) : ms[i].pad \notin {<<>>, <<NL>>}
              THEN {"pad"} ELSE {})
      \cup (IF Len(ms) >= 1 /\ Kind(ms[1]) # "index" THEN {"second index"} ELSE {})
      \cup (IF Cardinality(Lookups(ms)) > 1 THEN {"lookup"} ELSE {})

WellFormed(a) == Tolerable(a) /\ Anomalies(a) = {}

ExpectedNames(a) == {RealName(a.members, i) : i \in PlainPositions(a.members)}

ExpectedSymbols(a) ==
  {<<Utf8Text(a.index.names[i]), RealName(a.members, a.index.refs[i])>> :
     i \in 1..Len(a.index.names)}

Items(dict) == {<<k, dict[k]>> : k \in DOMAIN dict}

\* The load started on a reader that held nothing.
Fresh(o) == o.pre.members = EmptyDict /\ o.pre.symbol_member_map = EmptyDict

Outcomes == {history[k] : k \in 1..Len(history)}

\* Member i of the archive is in m with its declared size and its own bytes.
Holds(m, a, i) ==
  LET n == RealName(a.members, i)
      h == HeaderStart(a, i)
  IN  /\ n \in DOMAIN m
      /\ m[n].size = Len(a.members[i].content)
      /\ Len(m[n].content.data) = m[n].size
      /\ m[n].content.data = PySlice(FullBytes(a), h + 60, h + 60 + m[n].size)

\* ------------------------------------------------------------ the claims --
\* C1: after load of a well-formed archive (odd sizes and their pad bytes
\* included) on a fresh reader, load has returned and every member of the
\* archive is in members with len(content) = size and content equal to the
\* bytes [h+60, h+60+size) of the file, h its true header offset.
C1_Claim ==
  \A o \in Outcomes :
    WellFormed(o.arch) /\ Fresh(o) =>
      /\ o.err = ""
      /\ DOMAIN o.members = ExpectedNames(o.arch)
      /\ \A i \in PlainPositions(o.arch.members) : Holds(o.members, o.arch, i)

\* C2: after a load that returns without error, neither "/" nor "//" is a
\* key of members.
C2_Claim ==
  \A o \in Outcomes :
    o.err = "" => <<SLASH>> \notin DOMAIN o.members
                  /\ <<SLASH, SLASH>> \notin DOMAIN o.members

\* C3: in every reachable state every value of symbol_member_map is a key
\* of members.
C3_ValuesAreMembers ==
  \A sym \in DOMAIN symbol_member_map :
    symbol_member_map[sym] \in DOMAIN members

\* A load failed part-way, after symbols were mapped.
C3_Witness ==
  /\ pc = "failed"
  /\ symbol_member_map # EmptyDict
  /\ Len(history) = loads
  /\ history[loads].symbol_member_map = symbol_member_map

\* C4: a second load of the same buffer succeeds and leaves both maps as the
\* first load left them; a second load of another buffer leaves only the
\* entries of the second buffer.
C4_Claim ==
  \A k \in 2..Len(history) :
    LET first == history[k - 1]
        second == history[k]
    IN  /\ first.err = ""
        /\ second.pre = [members |-> first.members,
                         symbol_member_map |-> first.symbol_member_map]
        => /\ second.arch = first.arch =>
                /\ second.err = ""
                /\ second.members = first.members
                /\ second.symbol_member_map = first.symbol_member_map
           /\ second.arch # first.arch /\ second.err = "" =>
                DOMAIN second.members
                  = {second.cataloged[i][2] : i \in 1..Len(second.cataloged)}

\* C5: a load on a fresh reader that aborts leaves members and
\* symbol_member_map empty.
C5_Claim ==
  \A o \in Outcomes :
    Fresh(o) /\ o.err # "" =>
      o.members = EmptyDict /\ o.symbol_member_map = EmptyDict

\* C6: no insertion into members replaces an entry: after a successful load
\* on a fresh reader, members has as many entries as headers were cataloged.
C6_Claim ==
  \A o \in Outcomes :
    Fresh(o) /\ o.err = "" => Cardinality(DOMAIN o.members) = Len(o.cataloged)

\* C7: an archive whose only defects are the four non-fatal anomalies loads
\* without error, into the maps of the same archive without the anomaly.
C7_Claim ==
  \A o \in Outcomes :
    Fresh(o) /\ Tolerable(o.arch) /\ Anomalies(o.arch) # {} =>
      /\ o.err = ""
      /\ DOMAIN o.members = ExpectedNames(o.arch)
      /\ Items(o.symbol_member_map) = ExpectedSymbols(o.arch)

\* The count N in the first 4 bytes of the index content.
IndexCount(a) == parse_big_endian(PySlice(IndexContent(a), 0, 4))

\* C8: after a successful load on a fresh reader, symbol_member_map has
\* exactly N entries, the i-th symbol mapped to the member whose header
\* starts at the i-th offset; an index with fewer than N offsets or names
\* never loads.
C8_Claim ==
  \A o \in Outcomes :
    Fresh(o) /\ o.err = "" /\ o.arch.cut = 0 =>
      LET ix == o.arch.index
          N == IndexCount(o.arch)
      IN  /\ Len(ix.refs) >= N
          /\ Len(ix.names) >= N
          /\ Cardinality(DOMAIN o.symbol_member_map) = N
          /\ \A i \in 1..N :
               /\ Utf8Text(ix.names[i]) \in DOMAIN o.symbol_member_map
               /\ \E j \in 1..Len(o.cataloged) :
                    /\ o.cataloged[j][1] = RefOffset(o.arch, ix.refs[i])
                    /\ o.cataloged[j][2]
                         = o.symbol_member_map[Utf8Text(ix.names[i])]

\* C9: a read of an explicit length never yields fewer bytes: no load
\* returns with a Member whose content is shorter than its size.
C9_Claim ==
  \A o \in Outcomes :
    o.err = "" =>
      \A n \in DOMAIN o.members : Len(o.members[n].content.data) = o.members[n].size

\* The trimmed name field of the header read at offset off.
RawName(off) == rstrip(PySlice(data_stream.data, off, off + 16))

IsLongRef(t) == Len(t) >= 2 /\ t[1] = SLASH /\ IsNumber(Tail(t))

\* C10: a cataloged member whose name field is "/<k>" is named by the text
\* of the lookup member's content from offset k up to the next zero byte,
\* whatever was resolved before it.
C10_LongNames ==
  pc = "catalog" =>
    \A i \in 1..Len(cataloged) :
      IsLongRef(RawName(cataloged[i][1])) =>
        /\ filename_member # None
        /\ cataloged[i][2]
             = Utf8Text(TextAt(filename_member[1].content.data,
                               DigitsValue(Tail(RawName(cataloged[i][1])))))

\* "/3" was resolved before "/0", both against the same lookup member.
C10_Witness ==
  /\ pc = "catalog"
  /\ Len(cataloged) = 2
  /\ RawName(cataloged[1][1]) = <<SLASH, ZERO + 3>>
  /\ RawName(cataloged[2][1]) = <<SLASH, ZERO>>
  /\ cataloged[1][2] = <<99, 100>>
  /\ cataloged[2][2] = <<97, 98>>

\* A header whose name field is "/<k>" is the next to be read and no lookup
\* member is recorded.
LongRefAhead ==
  /\ pc \in {"first_index", "catalog"}
  /\ filename_member = None
  /\ IsLongRef(RawName(data_stream.cursor))

\* C11: a header "/<k>" read while no "//" member is recorded makes load
\* fail (ArchiveReadException), with members as it was: a "//" member that
\* comes later in the file is never reached to resolve it.
C11_NoLookupYet ==
  [][LongRefAhead =>
       /\ pc' = "failed"
       /\ err' = "ArchiveReadException"
       /\ members' = members]_vars

\* The load of an archive with "/0" ahead of its "//" member has failed.
C11_Witness ==
  /\ pc = "failed"
  /\ err = "ArchiveReadException"
  /\ arch.members = <<IDX2, Long0, FN>>
  /\ arch.index.name = <<SLASH>>
  /\ members = EmptyDict

\* A step of a load call (reset is the one other operation of the reader).
LoadStep == loads' # loads \/ ~Idle

\* The symbol name the next iteration of the symbol loop reads.
NextSymbol == read_cstring(symbol_name_stream, None)

\* C12: a load never changes or removes an entry of symbol_member_map, and
\* the iteration of the symbol loop that reads a symbol name already in the
\* map makes load fail.
C12_OneMemberPerSymbol ==
  [][LoadStep =>
       /\ \A sym \in DOMAIN symbol_member_map :
            /\ sym \in DOMAIN symbol_member_map'
            /\ symbol_member_map'[sym] = symbol_member_map[sym]
       /\ ( /\ pc = "symbols"
            /\ more_to_read(member_offset_stream)
            /\ NextSymbol.err = ""
            /\ NextSymbol.val \in DOMAIN symbol_member_map )
          => pc' = "failed"]_vars

\* A second archive listed the symbol "t" that the first had mapped to "cd":
\* its load failed and the entry is as it was.
C12_Witness ==
  /\ pc = "failed"
  /\ err = "ArchiveReadException"
  /\ loads = 2
  /\ arch.members = <<IDX2, MemC>>
  /\ <<99>> \in DOMAIN members
  /\ <<116>> \in DOMAIN symbol_member_map
  /\ symbol_member_map[<<116>>] = <<99, 100>>

\* The buffer of archive a begins with the 8 magic bytes.
GoodMagic(a) == PySlice(Bytes(a), 0, 8) = MAGIC

\* C13: a load of a buffer that does not begin with the magic (or is shorter
\* than 8 bytes) fails at once, before a member header is read, and leaves
\* members and symbol_member_map as they were.
C13_BadMagic ==
  [][loads' # loads /\ ~GoodMagic(arch') =>
       /\ pc' = "failed"
       /\ err' \in {"ArchiveReadException", "BufferStreamIndexError"}
       /\ members' = members
       /\ symbol_member_map' = symbol_member_map
       /\ data_stream' = EmptyStream
       /\ index_member' = NoMember
       /\ cataloged' = <<>>]_vars

\* A buffer with a wrong magic was loaded on a reader that held a member.
C13_Witness ==
  /\ pc = "failed"
  /\ loads = 2
  /\ arch = BadMagicArchive
  /\ Len(history) = 2
  /\ history[1].err = ""
  /\ members # EmptyDict
  /\ members = history[1].members

\* The offset the next iteration of the symbol loop reads.
NextOffset == read_big_endian_dword(member_offset_stream, None)

\* The header offsets of the members cataloged by this load.
CatalogedOffsets == {cataloged[i][1] : i \in 1..Len(cataloged)}

\* C14: the iteration of the symbol loop that reads an offset at which no
\* member was cataloged makes load fail and adds nothing to
\* symbol_member_map.
C14_UnknownOffset ==
  [][( /\ pc = "symbols"
       /\ more_to_read(member_offset_stream)
       /\ NextOffset.err = ""
       /\ NextOffset.val \notin CatalogedOffsets )
     => /\ pc' = "failed"
        /\ symbol_member_map' = symbol_member_map]_vars

\* The load of an archive whose symbol points at the "//" member has failed
\* on the lookup of the offset.
C14_Witness ==
  /\ pc = "failed"
  /\ err = "KeyError"
  /\ arch.index.refs = <<2>>
  /\ Kind(arch.members[2]) = "lookup"
  /\ symbol_member_map = EmptyDict
  /\ members # EmptyDict

\* The size declared by the header that starts at offset h of the buffer.
DeclaredSize(h) == PyInt(PySlice(data_stream.data, h + 48, h + 58)).val

\* C15: the member whose header starts at h with declared size s is followed
\* by a header read at h + 60 + s + (s mod 2), and every header offset that
\* is recorded is even.
C15_Claim ==
  [][(pc' = "catalog" /\ pc \in {"first_index", "catalog"}) =>
       /\ data_stream'.cursor
            = data_stream.cursor + 60 + DeclaredSize(data_stream.cursor)
              + (DeclaredSize(data_stream.cursor) % 2)
       /\ \A i \in 1..Len(cataloged') : (cataloged'[i][1] % 2 = 0)]_vars

\* Every member of the archive has a content of even length.
EvenSizes(a) ==
  /\ IndexSize(a.index) % 2 = 0
  /\ \A i \in 1..Len(a.members) : Len(a.members[i].content) % 2 = 0

\* C16: in an archive with more than one "//" member (and nothing else out
\* of the ordinary), every member with a long-filename reference is cataloged
\* under the name found in the first "//" member, also when it stands behind
\* a further "//" member.
C16_Claim ==
  \A o \in Outcomes :
    ( /\ Fresh(o)
      /\ Tolerable(o.arch)
      /\ EvenSizes(o.arch)
      /\ Anomalies(o.arch) = {"lookup"} )
    => \A i \in PlainPositions(o.arch.members) :
         Kind(o.arch.members[i]) = "long"
           => RealName(o.arch.members, i) \in DOMAIN o.members

\* C17: the flag is set when the catalog loop begins and is clear after
\* every iteration; an iteration that reads a header named "/" and drops it
\* without cataloging it began with the flag set.
C17_OneShot ==
  [][/\ (pc = "first_index" /\ pc' = "catalog") => is_first_member_after_index'
     /\ (pc = "catalog" /\ pc' = "catalog") =>
          /\ ~is_first_member_after_index'
          /\ (RawName(data_stream.cursor) = <<SLASH>> /\ cataloged' = cataloged)
             => ( /\ is_first_member_after_index
                  /\ cataloged = <<>>
                  /\ data_stream.cursor = 68 + index_member.size )]_vars

\* The second index was dropped and the next header named "/" was not: it
\* is cataloged under "/".
C17_Witness ==
  /\ pc = "catalog"
  /\ ~is_first_member_after_index
  /\ Len(arch.members) >= 2
  /\ arch.members[1] = IDX2
  /\ arch.members[2] = RawSlash
  /\ Len(cataloged) = 1
  /\ cataloged[1][2] = <<SLASH>>
  /\ <<SLASH>> \in DOMAIN members

\* C18: every iteration of the catalog loop moves the main cursor forward by
\* at least the 60 bytes of a header, and every iteration of the symbol loop
\* moves the cursor of the offset stream forward by 4.
C18_Claim ==
  [][/\ (pc = "catalog" /\ pc' = "catalog")
          => data_stream'.cursor >= data_stream.cursor + 60
     /\ (pc = "symbols" /\ pc' = "symbols")
          => (member_offset_stream'.cursor = member_offset_stream.cursor + 4)]_vars

\* The main cursor after the member at offset h was read, from the header
\* alone: 60 header bytes, a pad byte when that position is odd, the content.
AfterMember(h) == h + 60 + ((h + 60) % 2) + DeclaredSize(h)

\* C19: the streams of a load move alone. An iteration of the catalog loop
\* moves the main cursor by what the header says, whatever was looked up in
\* the lookup member, and leaves the index content, the bytes of the lookup
\* member and every member stored before alone; splitting the index and the
\* symbol loop leave the main stream, the lookup member and the members
\* alone, and the symbol loop leaves the index content alone.
C19_Independent ==
  [][/\ (pc = "catalog" /\ pc' = "catalog") =>
          /\ data_stream'.data = data_stream.data
          /\ data_stream'.cursor = AfterMember(data_stream.cursor)
          /\ index_member' = index_member
          /\ filename_member # None =>
               /\ filename_member' # None
               /\ filename_member'[1].content.data = filename_member[1].content.data
          /\ \A n \in DOMAIN members :
               (cataloged' = cataloged \/ n # cataloged'[Len(cataloged')][2])
                 => n \in DOMAIN members' /\ members'[n] = members[n]
     /\ (pc = "catalog" /\ pc' = "symbols") =>
          /\ data_stream' = data_stream
          /\ filename_member' = filename_member
          /\ members' = members
          /\ index_member'.content.data = index_member.content.data
     /\ (pc = "symbols" /\ pc' = "symbols") =>
          /\ data_stream' = data_stream
          /\ filename_member' = filename_member
          /\ members' = members
          /\ index_member' = index_member
          /\ member_offset_stream'.data = member_offset_stream.data
          /\ symbol_name_stream'.data = symbol_name_stream.data]_vars

\* A name was looked up in the lookup member and a symbol was read from the
\* index: both sub-streams have moved, and the main cursor is at the end of
\* the buffer, where the catalog loop left it.
C19_Witness ==
  /\ pc = "symbols"
  /\ filename_member # None
  /\ filename_member[1].content.cursor > 0
  /\ symbol_name_stream.cursor > 0
  /\ member_offset_stream.cursor > 0
  /\ data_stream.cursor = Len(data_stream.data)
  /\ cataloged # <<>>

\* C20: an iteration of the catalog loop that reads a header whose trimmed
\* name field is neither "/" nor "//" catalogs the member, and does not
\* record it as the lookup member.
C20_Claim ==
  [][( /\ pc = "catalog"
       /\ pc' = "catalog"
       /\ RawName(data_stream.cursor) \notin {<<SLASH>>, <<SLASH, SLASH>>} )
     => /\ Len(cataloged') = Len(cataloged) + 1
        /\ cataloged'[Len(cataloged')][1] = data_stream.cursor
        /\ (filename_member' = None) = (filename_member = None)]_vars

====
